---- MODULE Spec2Model ----
(***************************************************************************)
(* OAuth session orchestration: the process-wide session map keyed by      *)
(* state token, lazy TTL eviction, startOAuthSession, getOAuthStatus and   *)
(* the asynchronous completeOAuthCallback with its two awaits              *)
(* (exchangeCodeForToken, addAccount).                                     *)
(*                                                                         *)
(* JavaScript objects are modelled by a heap: objs[s] is the one session   *)
(* object ever created for token s (createState mints each token once),    *)
(* and sessions is the key set of the Map.  A suspended callback keeps its *)
(* reference to objs[s] even after the key was deleted from the Map.       *)
(***************************************************************************)
EXTENDS Integers, Sequences, FiniteSets, TLC

\* ---------------------------------------------------------------- bounds
MaxSessions == 2
MaxCalls == 2
MaxTicks == 2

\* ------------------------------------------------------ program constants
SESSION_TTL_MS == 1800000
DefaultPort == 3000

\* the tokens createState mints, in the order it mints them
Tokens == 1..MaxSessions
\* a token value createState never returns
Unknown == MaxSessions + 1
AllTokens == Tokens \cup {Unknown}
\* the tokens a caller can present once n tokens were minted: a token is
\* random (crypto.randomUUID), so no caller holds it before it is minted
Presentable(n) == (1..n) \cup {Unknown}
\* a falsy state argument (undefined / empty string)
NoState == 0
Calls == 1..MaxCalls

\* amounts by which the clock (Date.now) may advance between two operations
TickSteps == {1, SESSION_TTL_MS}

\* ------------------------------------------------------------ data values
\* JavaScript null for session.result
Null == [null |-> TRUE]

\* server.port of the config: a finite number, a string that parses, a
\* string that does not parse, or nothing at all
RawPorts ==
    { [kind |-> "number", val |-> 8080],
      [kind |-> "string", val |-> 8080],
      [kind |-> "badstring", val |-> 0],
      [kind |-> "none", val |-> 0] }

resolveServerPort(raw) ==
    IF raw.kind = "number" THEN raw.val
    ELSE IF raw.kind = "string" THEN raw.val
    ELSE DefaultPort

\* `http://localhost:${port}/oauth-callback`
RedirectUri(port) == <<"http://localhost:", port, "/oauth-callback">>

\* a || b on strings: the empty string is falsy
OrElse(a, b) == IF a # "" THEN a ELSE b

\* values of the callback's query parameters
Codes == {"", "abc"}
ErrorParams == {"", "access_denied"}
ErrorDescriptions == {"", "user denied"}

\* the errors the collaborators reject with: Error objects with a message
Errors == { [message |-> "invalid_grant"] }

\* the TypeError of reading authManager.apiLimiter on an undefined authManager
TypeErrorNoAuthManager == [message |-> "Cannot read properties of undefined"]

\* e.message || String(e)
ErrorText(e) == OrElse(e.message, "Error")

MissingStateResult == [success |-> FALSE, message |-> <<"Missing state">>]
NotFoundResult == [success |-> FALSE, message |-> <<"OAuth state not found or expired">>]
MissingCodeResult == [success |-> FALSE, message |-> <<"Missing code">>]
\* message "授权成功"
SuccessResult == [success |-> TRUE, message |-> <<"authorization succeeded">>]

\* variant: the message omits the provider's reason
ProviderErrorResult_NoReason(error, errorDescription) ==
    [success |-> FALSE, message |-> <<"authorization failed: ", "">>]

\* `授权失败: ${errorDescription || error}`
ProviderErrorResult(error, errorDescription) ==
    [success |-> FALSE,
     message |-> <<"authorization failed: ", OrElse(errorDescription, error)>>]

\* variant: the catch block returns the success result
ExchangeFailureResult_Success(e) == SuccessResult

\* `获取 token 失败: ${e.message || String(e)}`
ExchangeFailureResult(e) ==
    [success |-> FALSE, message |-> <<"token fetch failed: ", ErrorText(e)>>]

\* ------------------------------------------------------------------ state
VARIABLES
    now,        \* Date.now()
    ticks,      \* how often the clock advanced
    sessions,   \* keys of the sessions Map
    objs,       \* the session object of each token
    issued,     \* number of tokens createState has minted
    calls,      \* the completeOAuthCallback invocations
    lastWrite,  \* per token: branch and error parameters of the last write of result
    succeeded,  \* per token: some callback has returned {success: true}
    evicted,    \* tokens whose key a cleanup has deleted from the Map
    lateWrite,  \* tokens whose result was written after such a deletion
    expiredSeen,\* minted tokens getOAuthStatus has reported "expired" for
    last        \* the operation that just ran, its arguments and its response

vars ==
    <<now, ticks, sessions, objs, issued, calls, lastWrite, succeeded,
      evicted, lateWrite, expiredSeen, last>>

\* the slot of a token no session object exists for
Undefined == [createdAt |-> 0, redirectUri |-> <<>>, result |-> Null]

\* variant: createdAt is left at 0
NewSession_ZeroCreatedAt(t, uri) ==
    [createdAt |-> 0, redirectUri |-> uri, result |-> Null]

\* the object literal of startOAuthSession
NewSession(t, uri) ==
    [createdAt |-> t, redirectUri |-> uri, result |-> Null]

\* variant: a session that has a result is kept whatever its age
cleanupExpiredSessions_PendingOnly(sess, o, t) ==
    { s \in sess : ~(o[s].createdAt = 0
                       \/ (o[s].result = Null
                            /\ t - o[s].createdAt > SESSION_TTL_MS)) }

\* variant: nothing is ever evicted
cleanupExpiredSessions_Never(sess, o, t) == sess

\* the keys left in the Map after cleanupExpiredSessions at time t
cleanupExpiredSessions(sess, o, t) ==
    { s \in sess : ~(o[s].createdAt = 0 \/ t - o[s].createdAt > SESSION_TTL_MS) }

\* a call: where it stands, its state argument, whether it called
\* exchangeCodeForToken and with which redirectUri
IdleCall == [pc |-> "idle", state |-> NoState, exchanged |-> FALSE, uri |-> <<>>]

\* the branch that last wrote a session's result and, for the error branch,
\* the error parameters it was called with
NoWrite == [branch |-> "none", error |-> "", errorDescription |-> ""]

\* op: the operation; state, call: its subject; the other fields are the
\* arguments and the response of a callback (returned, wrote, found, branch,
\* code, error, errorDescription, result) or of getOAuthStatus (status, result,
\* and what held when it was called: afterStart, prevReturned, age,
\* hadResult, succeeded, lastWrite, expiredBefore)
NoOp ==
    [op |-> "init", state |-> NoState, call |-> 0, returned |-> FALSE,
     wrote |-> FALSE, found |-> FALSE, branch |-> "none", code |-> "",
     error |-> "",
     errorDescription |-> "", result |-> Null, status |-> "none",
     afterStart |-> FALSE, prevReturned |-> Null, age |-> "none",
     hadResult |-> FALSE, succeeded |-> FALSE, lastWrite |-> NoWrite,
     expiredBefore |-> FALSE]

Init ==
    /\ now = 1
    /\ ticks = 0
    /\ sessions = {}
    /\ objs = [s \in AllTokens |-> Undefined]
    /\ issued = 0
    /\ calls = [c \in Calls |-> IdleCall]
    /\ lastWrite = [s \in AllTokens |-> NoWrite]
    /\ succeeded = [s \in AllTokens |-> FALSE]
    /\ evicted = {}
    /\ lateWrite = {}
    /\ expiredSeen = {}
    /\ last = NoOp

\* ---------------------------------------------------------------- actions
\* the wall clock advances
Tick(d) ==
    /\ ticks < MaxTicks
    /\ now' = now + d
    /\ ticks' = ticks + 1
    /\ last' = [NoOp EXCEPT !.op = "tick"]
    /\ UNCHANGED <<sessions, objs, issued, calls, lastWrite, succeeded,
                   evicted, lateWrite, expiredSeen>>

StartOAuthSession(raw) ==
    /\ issued < MaxSessions
    /\ LET s == issued + 1
           kept == cleanupExpiredSessions(sessions, objs, now)
           redirectUri == RedirectUri(resolveServerPort(raw))
       IN /\ sessions' = kept \cup {s}
          /\ objs' = [objs EXCEPT ![s] = NewSession(now, redirectUri)]
          /\ issued' = s
          /\ evicted' = evicted \cup (sessions \ kept)
          /\ last' = [NoOp EXCEPT !.op = "start", !.state = s]
    /\ UNCHANGED <<now, ticks, calls, lastWrite, succeeded, lateWrite,
                   expiredSeen>>

\* variant: the result is looked at before the lookup is known to have found
\* the session
StatusPayload_ResultFirst(kept, o, s) ==
    IF o[s].result # Null
    THEN [status |-> "completed", result |-> o[s].result]
    ELSE IF s \notin kept
    THEN [status |-> "expired", result |-> NotFoundResult]
    ELSE [status |-> "pending", result |-> Null]

\* the payload getOAuthStatus returns for token s when the Map holds kept
StatusPayload(kept, o, s) ==
    IF s \notin kept
    THEN [status |-> "expired", result |-> NotFoundResult]
    ELSE IF o[s].result # Null
    THEN [status |-> "completed", result |-> o[s].result]
    ELSE [status |-> "pending", result |-> Null]

\* how old the session of token s is at time t
AgeOf(o, s, t) ==
    IF o[s] = Undefined THEN "unminted"
    ELSE IF t - o[s].createdAt > SESSION_TTL_MS THEN "old"
    ELSE "live"

GetOAuthStatus(s) ==
    /\ LET kept == cleanupExpiredSessions(sessions, objs, now)
           p == StatusPayload(kept, objs, s)
       IN /\ sessions' = kept
          /\ evicted' = evicted \cup (sessions \ kept)
          /\ expiredSeen' = IF p.status = "expired" /\ s # Unknown
                            THEN expiredSeen \cup {s} ELSE expiredSeen
          /\ last' = [NoOp EXCEPT
                        !.op = "status", !.state = s,
                        !.status = p.status, !.result = p.result,
                        !.afterStart = (last.op = "start" /\ last.state = s),
                        !.prevReturned =
                            IF last.wrote /\ last.state = s
                            THEN last.result ELSE Null,
                        !.age = AgeOf(objs, s, now),
                        !.hadResult = (objs[s].result # Null),
                        !.succeeded = succeeded[s],
                        !.lastWrite = lastWrite[s],
                        !.expiredBefore = (s \in expiredSeen)]
    /\ UNCHANGED <<now, ticks, objs, issued, calls, lastWrite, succeeded,
                   lateWrite>>

\* variant: the redirectUri is derived again, from the default port
ExchangeRedirectUri_Default(session) == RedirectUri(DefaultPort)

\* the expression handed to exchangeCodeForToken as its redirectUri
ExchangeRedirectUri(session) == session.redirectUri

\* variant: the code is tested before the error parameter
CallbackBranch_CodeFirst(state, found, code, error) ==
    IF state = NoState THEN "missingState"
    ELSE IF ~found THEN "notFound"
    ELSE IF code # "" THEN "exchange"
    ELSE IF error # "" THEN "error"
    ELSE "missingCode"

\* variant: the error parameter is tested before the session lookup
CallbackBranch_ErrorFirst(state, found, code, error) ==
    IF state = NoState THEN "missingState"
    ELSE IF error # "" THEN "error"
    ELSE IF ~found THEN "notFound"
    ELSE IF code = "" THEN "missingCode"
    ELSE "exchange"

\* the chain of early returns of completeOAuthCallback
CallbackBranch(state, found, code, error) ==
    IF state = NoState THEN "missingState"
    ELSE IF ~found THEN "notFound"
    ELSE IF error # "" THEN "error"
    ELSE IF code = "" THEN "missingCode"
    ELSE "exchange"

\* variant: the result is returned without being assigned
WriteResult_Skip(o, s, r) == o

\* variant: every session shares one result slot
WriteResult_Shared(o, s, r) == [b \in DOMAIN o |-> [o[b] EXCEPT !.result = r]]

\* session.result = result
WriteResult(o, s, r) == [o EXCEPT ![s].result = r]

\* session.result = result; sessions.set(state, session); return result
\* run by call c on the session object of token s, the Map holding sess
Conclude(c, s, sess, r, op, branch, args) ==
    /\ objs' = WriteResult(objs, s, r)
    /\ sessions' = sess \cup {s}
    /\ lastWrite' = [lastWrite EXCEPT ![s] =
                        [branch |-> branch,
                         error |-> IF branch = "error" THEN args.error ELSE "",
                         errorDescription |->
                             IF branch = "error" THEN args.errorDescription
                             ELSE ""]]
    /\ succeeded' = [succeeded EXCEPT ![s] = @ \/ r.success]
    /\ lateWrite' = IF s \in evicted THEN lateWrite \cup {s} ELSE lateWrite
    /\ last' = [NoOp EXCEPT !.op = op, !.state = s, !.call = c,
                            !.returned = TRUE, !.wrote = TRUE,
                            !.found = args.found, !.branch = branch,
                            !.code = args.code, !.error = args.error,
                            !.errorDescription = args.errorDescription,
                            !.result = r]

\* return result, with no session to write it to
ReturnOnly(c, state, r, branch, args) ==
    /\ last' = [NoOp EXCEPT !.op = "callback", !.state = state, !.call = c,
                            !.returned = TRUE, !.found = args.found,
                            !.branch = branch, !.code = args.code,
                            !.error = args.error,
                            !.errorDescription = args.errorDescription,
                            !.result = r]
    /\ UNCHANGED <<objs, lastWrite, succeeded, lateWrite>>

\* call c is suspended at one of its two awaits
InFlight(c) == calls[c].pc \in {"exchange", "addAccount"}

\* variant: a callback waits until no other callback is suspended
CanEnter_Serialized(c) ==
    /\ calls[c].pc = "idle"
    /\ c > 1 => calls[c - 1].pc # "idle"
    /\ \A d \in Calls : ~InFlight(d)

\* call c can be made: the async function takes no lock, so the next call
\* (calls are numbered in the order they are made) can always start
CanEnter(c) ==
    /\ calls[c].pc = "idle"
    /\ c > 1 => calls[c - 1].pc # "idle"

\* the call of completeOAuthCallback up to its first return or await
CompleteOAuthCallback(c, state, code, error, errorDescription, hasAuthManager) ==
    /\ CanEnter(c)
    /\ evicted' = evicted \cup
                      (sessions \ cleanupExpiredSessions(sessions, objs, now))
    /\ UNCHANGED <<now, ticks, issued, expiredSeen>>
    /\ LET kept == cleanupExpiredSessions(sessions, objs, now)
           found == state \in kept
           branch == CallbackBranch(state, found, code, error)
           done == [calls EXCEPT ![c].pc = "returned", ![c].state = state]
           args == [found |-> found, code |-> code, error |-> error,
                    errorDescription |-> errorDescription]
       IN CASE branch = "missingState" ->
                 /\ sessions' = kept
                 /\ calls' = done
                 /\ ReturnOnly(c, state, MissingStateResult, branch, args)
            [] branch = "notFound" ->
                 /\ sessions' = kept
                 /\ calls' = done
                 /\ ReturnOnly(c, state, NotFoundResult, branch, args)
            [] branch = "error" ->
                 /\ calls' = done
                 /\ Conclude(c, state, kept,
                             ProviderErrorResult(error, errorDescription),
                             "callback", branch, args)
            [] branch = "missingCode" ->
                 /\ calls' = done
                 /\ Conclude(c, state, kept, MissingCodeResult, "callback",
                             branch, args)
            [] branch = "exchange" /\ ~hasAuthManager ->
                 \* authManager.apiLimiter throws inside the try block
                 /\ calls' = done
                 /\ Conclude(c, state, kept,
                             ExchangeFailureResult(TypeErrorNoAuthManager),
                             "callback", "throwSync", args)
            [] branch = "exchange" /\ hasAuthManager ->
                 \* exchangeCodeForToken is called and the function suspends
                 /\ sessions' = kept
                 /\ calls' = [calls EXCEPT
                                ![c] = [pc |-> "exchange", state |-> state,
                                        exchanged |-> TRUE,
                                        uri |-> ExchangeRedirectUri(objs[state])]]
                 /\ last' = [NoOp EXCEPT !.op = "callback", !.state = state,
                                         !.call = c, !.found = found,
                                         !.branch = branch, !.code = code,
                                         !.error = error,
                                         !.errorDescription = errorDescription]
                 /\ UNCHANGED <<objs, lastWrite, succeeded, lateWrite>>

\* what a call resumed after an await found at its entry: a session, a code
\* and no error
ResumeArgs == [found |-> TRUE, code |-> "abc", error |-> "", errorDescription |-> ""]

\* exchangeCodeForToken resolves: addAccount(creds) is called and awaited
ExchangeResolve(c) ==
    /\ calls[c].pc = "exchange"
    /\ calls' = [calls EXCEPT ![c].pc = "addAccount"]
    /\ last' = [NoOp EXCEPT !.op = "resume", !.state = calls[c].state,
                            !.call = c]
    /\ UNCHANGED <<now, ticks, sessions, objs, issued, lastWrite, succeeded,
                   evicted, lateWrite, expiredSeen>>

\* exchangeCodeForToken rejects with e: the catch block
ExchangeReject(c, e) ==
    /\ calls[c].pc = "exchange"
    /\ calls' = [calls EXCEPT ![c].pc = "returned"]
    /\ Conclude(c, calls[c].state, sessions, ExchangeFailureResult(e),
                "resume", "exchangeRejected", ResumeArgs)
    /\ UNCHANGED <<now, ticks, issued, evicted, expiredSeen>>

\* addAccount resolves: the success result
AddAccountResolve(c) ==
    /\ calls[c].pc = "addAccount"
    /\ calls' = [calls EXCEPT ![c].pc = "returned"]
    /\ Conclude(c, calls[c].state, sessions, SuccessResult,
                "resume", "success", ResumeArgs)
    /\ UNCHANGED <<now, ticks, issued, evicted, expiredSeen>>

\* addAccount rejects with e: the catch block
AddAccountReject(c, e) ==
    /\ calls[c].pc = "addAccount"
    /\ calls' = [calls EXCEPT ![c].pc = "returned"]
    /\ Conclude(c, calls[c].state, sessions, ExchangeFailureResult(e),
                "resume", "addAccountRejected", ResumeArgs)
    /\ UNCHANGED <<now, ticks, issued, evicted, expiredSeen>>

Next ==
    \/ \E d \in TickSteps : Tick(d)
    \/ \E raw \in RawPorts : StartOAuthSession(raw)
    \/ \E s \in Presentable(issued) : GetOAuthStatus(s)
    \/ \E c \in Calls, state \in Presentable(issued) \cup {NoState},
          code \in Codes,
          error \in ErrorParams, errorDescription \in ErrorDescriptions,
          hasAuthManager \in BOOLEAN :
            CompleteOAuthCallback(c, state, code, error, errorDescription,
                                  hasAuthManager)
    \/ \E c \in Calls : ExchangeResolve(c)
    \/ \E c \in Calls, e \in Errors : ExchangeReject(c, e)
    \/ \E c \in Calls : AddAccountResolve(c)
    \/ \E c \in Calls, e \in Errors : AddAccountReject(c, e)

Spec == Init /\ [][Next]_vars

\* the collaborators settle every promise they returned: a call suspended at
\* await exchangeCodeForToken or await addAccount is eventually resumed
CollaboratorsSettle ==
    \A c \in Calls :
        /\ WF_vars(ExchangeResolve(c) \/ \E e \in Errors : ExchangeReject(c, e))
        /\ WF_vars(AddAccountResolve(c)
                      \/ \E e \in Errors : AddAccountReject(c, e))

FairSpec == Spec /\ CollaboratorsSettle

\* ----------------------------------------------------------------- claims
\* how often exchangeCodeForToken was called for the session of token s
ExchangeCount(s) ==
    Cardinality({ c \in Calls : calls[c].exchanged /\ calls[c].state = s })

\* C1: for every session, the callbacks delivered for its state call
\* exchangeCodeForToken at most once, however they interleave.
C1_AtMostOneExchange == \A s \in Tokens : ExchangeCount(s) <= 1

\* C2: once a session's result is non-null, no later operation changes it
\* to a different value.
C2_ResultWrittenOnce ==
    [][\A s \in Tokens :
          objs[s].result # Null => objs'[s].result = objs[s].result]_vars

\* C3: after a callback for the state has returned {success: true}, every
\* getOAuthStatus of that state that still finds the session within its TTL
\* returns "completed" with that success payload.
C3_SuccessSticks ==
    (last.op = "status" /\ last.succeeded /\ last.age = "live")
        => (last.status = "completed" /\ last.result = SuccessResult)

\* C4 as stated: in every branch, missing state and absent session included,
\* the result a callback returns is the result its session holds in the Map
\* when it returns.
C4_EveryBranchWrites ==
    last.returned
        => (last.state \in sessions /\ objs[last.state].result = last.result)

\* C4: in the branches that found a session (provider error, missing code,
\* exchange success, exchange failure) the returned result is the session's
\* result in the Map when the callback returns, and a getOAuthStatus that
\* directly follows within the TTL reports "completed" with that result.
C4_FoundBranchesWrite ==
    /\ (last.returned /\ last.found)
          => (last.state \in sessions /\ objs[last.state].result = last.result)
    /\ (last.op = "status" /\ last.prevReturned # Null /\ last.age = "live")
          => (last.status = "completed" /\ last.result = last.prevReturned)

C4_Witness ==
    /\ last.op = "status"
    /\ last.age = "live"
    /\ last.status = "completed"
    /\ last.prevReturned = ExchangeFailureResult([message |-> "invalid_grant"])

\* C5: a session with no result is reported "expired" by every
\* getOAuthStatus made when now - createdAt > TTL, and "pending" is only ever
\* reported for a session within its TTL.
C5_ExpiredAfterTTL ==
    /\ (last.op = "status" /\ ~last.hadResult /\ last.age = "old")
          => last.status = "expired"
    /\ (last.op = "status" /\ last.status = "pending") => last.age = "live"

C5_Witness ==
    /\ last.op = "status"
    /\ ~last.hadResult
    /\ last.age = "old"
    /\ last.status = "expired"

\* C6: getOAuthStatus called directly after startOAuthSession, for the state
\* it returned, reports "pending".
C6_PendingAfterStart ==
    (last.op = "status" /\ last.afterStart) => last.status = "pending"

C6_Witness == last.op = "status" /\ last.afterStart /\ last.status = "pending"

\* C7: a callback whose state is not in the Map (never created, or evicted)
\* returns the "not found or expired" failure whatever code and error it
\* carries, calls no token exchange and leaves the state out of the Map.
C7_AbsentStateNotFound ==
    (last.op = "callback" /\ last.state # NoState /\ ~last.found)
        => /\ last.returned
           /\ last.result = NotFoundResult
           /\ ~calls[last.call].exchanged
           /\ last.state \notin sessions
           /\ ~last.wrote

C7_Witness ==
    /\ last.op = "callback"
    /\ last.state # NoState
    /\ ~last.found
    /\ objs[last.state] # Undefined
    /\ last.error # ""
    /\ last.code # ""
    /\ last.result = NotFoundResult

\* the reason a provider-error message may carry
Reasons(error, errorDescription) == {error, errorDescription} \ {""}

\* C8: a callback with an error parameter on a live session returns a
\* failure whose message carries errorDescription or error, and a later
\* getOAuthStatus within the TTL, no other callback having written since,
\* reports "completed" with success false and that message.
C8_ProviderErrorReported ==
    /\ (last.op = "callback" /\ last.found /\ last.error # "")
          => /\ last.returned
             /\ ~last.result.success
             /\ last.result.message[2]
                    \in Reasons(last.error, last.errorDescription)
    /\ (last.op = "status" /\ last.lastWrite.branch = "error"
            /\ last.age = "live")
          => /\ last.status = "completed"
             /\ ~last.result.success
             /\ last.result.message[2]
                    \in Reasons(last.lastWrite.error,
                                last.lastWrite.errorDescription)

C8_Witness ==
    /\ last.op = "status"
    /\ last.lastWrite.branch = "error"
    /\ last.lastWrite.errorDescription = ""
    /\ last.age = "live"
    /\ last.status = "completed"
    /\ last.result.message[2] = "access_denied"

\* C9 as stated: every failure a callback returns is also the result its
\* session holds in the Map when it returns.
C9_EveryFailureRecorded ==
    (last.returned /\ ~last.result.success)
        => (last.state \in sessions /\ objs[last.state].result = last.result)

FailureBranches ==
    {"missingState", "notFound", "error", "missingCode", "throwSync",
     "exchangeRejected", "addAccountRejected"}

\* C9: every failure mode ends in a returned {success: false, message}, the
\* rejection of exchangeCodeForToken and of addAccount included; where the
\* callback found a session, that result is also the session's result in the
\* Map when the callback returns.
C9_FailuresReturned ==
    (last.op \in {"callback", "resume"} /\ last.branch \in FailureBranches)
        => /\ last.returned
           /\ ~last.result.success
           /\ Len(last.result.message) >= 1
           /\ last.found
                => /\ last.state \in sessions
                   /\ objs[last.state].result = last.result

C9_Witness ==
    /\ last.op = "resume"
    /\ last.branch = "addAccountRejected"
    /\ last.returned
    /\ objs[last.state].result = last.result

\* C10: every call of exchangeCodeForToken carries the redirectUri that
\* startOAuthSession recorded on the session of the callback's state.
C10_ExchangeUsesSessionUri ==
    \A c \in Calls :
        calls[c].exchanged => calls[c].uri = objs[calls[c].state].redirectUri

C10_Witness ==
    \E c \in Calls, s \in Tokens :
        /\ calls[c].exchanged
        /\ calls[c].uri = RedirectUri(8080)
        /\ objs[s].redirectUri = RedirectUri(DefaultPort)

\* C11: an operation on one state token leaves the createdAt, redirectUri and
\* result of every other token's session unchanged, and leaves every other
\* session that is within its TTL in the Map.
C11_OtherSessionsUntouched ==
    [][\A b \in AllTokens :
          b # last'.state
              => /\ objs'[b] = objs[b]
                 /\ (b \in sessions /\ AgeOf(objs, b, now') = "live")
                        => b \in sessions']_vars

C11_Witness ==
    /\ last.op \in {"callback", "resume"}
    /\ last.wrote
    /\ \E b \in sessions :
          /\ b # last.state
          /\ objs[b].result # Null
          /\ objs[b].result # last.result

\* C12 as stated: whenever getOAuthStatus is called for a state whose
\* callback is suspended at an await, it reports "pending".
C12_InFlightAlwaysPending ==
    (last.op = "status" /\ \E c \in Calls : InFlight(c) /\ calls[c].state = last.state)
        => last.status = "pending"

\* C12: while a callback is suspended at an await, getOAuthStatus,
\* startOAuthSession and completeOAuthCallback for other tokens are enabled
\* (as far as tokens and calls are left within the bounds); the suspended
\* callback's own session is reported "pending" as long as it is within its
\* TTL and no other callback has written its result.
C12_OthersNotBlocked ==
    /\ \A c \in Calls :
          InFlight(c)
              => /\ \A s \in Presentable(issued) \ {calls[c].state} :
                       /\ ENABLED GetOAuthStatus(s)
                       /\ \A d \in Calls :
                            (calls[d].pc = "idle"
                                /\ (d > 1 => calls[d - 1].pc # "idle"))
                               => \A code \in Codes, error \in ErrorParams :
                                     ENABLED CompleteOAuthCallback(
                                                 d, s, code, error, "", TRUE)
                 /\ issued < MaxSessions
                       => \A raw \in RawPorts : ENABLED StartOAuthSession(raw)
    /\ (last.op = "status" /\ last.age = "live" /\ ~last.hadResult
           /\ \E c \in Calls : InFlight(c) /\ calls[c].state = last.state)
          => last.status = "pending"

C12_Witness ==
    /\ last.op = "callback"
    /\ last.returned
    /\ last.wrote
    /\ \E c \in Calls :
          /\ InFlight(c)
          /\ calls[c].state # last.state
          /\ c < last.call

\* C13: getOAuthStatus answers with one of three statuses; for a token that
\* never existed and for a token whose session is older than the TTL, pending
\* or completed, it answers with the same payload: "expired" and the
\* "not found or expired" message.
C13_ExpiredIndistinguishable ==
    last.op = "status"
        => /\ last.status \in {"expired", "pending", "completed"}
           /\ last.age \in {"unminted", "old"}
                => /\ last.status = "expired"
                   /\ last.result = NotFoundResult

C13_Witness ==
    /\ last.op = "status"
    /\ last.age = "old"
    /\ last.hadResult
    /\ last.lastWrite.branch = "error"
    /\ last.status = "expired"
    /\ last.result = NotFoundResult

\* C14: in every reachable state the Map holds no session that an earlier
\* cleanup removed for its age.
C14_NoEvictedSessionInStore == sessions \cap evicted = {}

\* C15: once the result of an exchange was written to a session that had
\* been evicted while the exchange was in flight, every getOAuthStatus for
\* its state reports "expired" and leaves the state out of the Map.
C15_LateResultNeverReported ==
    (last.op = "status" /\ last.state \in lateWrite)
        => (last.status = "expired" /\ last.state \notin sessions)

C15_Witness ==
    /\ last.op = "status"
    /\ last.state \in lateWrite
    /\ last.lastWrite.branch = "success"
    /\ last.hadResult
    /\ last.status = "expired"

\* the operations that begin with cleanupExpiredSessions
CleaningOps == {"start", "status", "callback"}

\* C16: after the cleanup that begins startOAuthSession, getOAuthStatus and
\* completeOAuthCallback no session older than the TTL is in the Map, with or
\* without a result, so a completed session polled after the TTL is
\* "expired"; and no step removes a session that is within its TTL.
C16_EvictionIgnoresCompletion ==
    [][/\ last'.op \in CleaningOps
            => \A s \in sessions' : AgeOf(objs', s, now') = "live"
       /\ \A s \in sessions \ sessions' : AgeOf(objs, s, now') = "old"
       /\ (last'.op = "status" /\ last'.age = "old" /\ last'.hadResult)
            => last'.status = "expired"]_vars

C16_Witness ==
    /\ last.op = "status"
    /\ last.age = "old"
    /\ last.lastWrite.branch = "success"
    /\ last.state \notin lateWrite
    /\ last.status = "expired"
    /\ \E s \in sessions : objs[s].createdAt + SESSION_TTL_MS = now

\* C17: a callback calls exchangeCodeForToken only when a state is given,
\* its session is in the Map, there is no error parameter and there is a
\* code; with both error and code the provider-error result is returned and
\* no exchange is made; with neither, "Missing code" and no exchange.
C17_ExchangeOnlyOnCodeBranch ==
    last.op = "callback"
        => /\ calls[last.call].exchanged
                => /\ last.state # NoState
                   /\ last.found
                   /\ last.error = ""
                   /\ last.code # ""
           /\ (last.found /\ last.error # "" /\ last.code # "")
                => /\ ~calls[last.call].exchanged
                   /\ last.returned
                   /\ last.result.message[1] = "authorization failed: "
           /\ (last.found /\ last.error = "" /\ last.code = "")
                => /\ ~calls[last.call].exchanged
                   /\ last.returned
                   /\ last.result = MissingCodeResult
                   /\ objs[last.state].result = MissingCodeResult

C17_Witness ==
    /\ last.op = "callback"
    /\ last.found
    /\ last.error # ""
    /\ last.code # ""
    /\ last.returned
    /\ ~calls[last.call].exchanged
    /\ \E c \in Calls : calls[c].exchanged

\* C18: once getOAuthStatus has reported "expired" for a token, it reports
\* "expired" for it ever after, also when a callback that was suspended at
\* the eviction writes its result afterwards.
C18_ExpiredIsAbsorbing ==
    (last.op = "status" /\ (last.expiredBefore \/ last.state = Unknown))
        => last.status = "expired"

C18_Witness ==
    /\ last.op = "status"
    /\ last.expiredBefore
    /\ last.state \in lateWrite
    /\ last.lastWrite.branch = "exchangeRejected"
    /\ last.status = "expired"

\* C19: with collaborators that settle, every call of completeOAuthCallback
\* that has started returns; and once a callback that found the session has
\* returned, no getOAuthStatus for its state reports "pending" (within the
\* TTL it reports "completed").
C19_CallbackReturns ==
    /\ \A c \in Calls : InFlight(c) ~> calls[c].pc = "returned"
    /\ [](last.op = "status" /\ (last.hadResult \/ last.prevReturned # Null)
             => /\ last.status # "pending"
                /\ last.age = "live" => last.status = "completed")

C19_Witness ==
    /\ last.op = "status"
    /\ last.prevReturned = SuccessResult
    /\ last.age = "live"
    /\ last.status = "completed"
    /\ \A c \in Calls : calls[c].pc = "returned"

====
